---- MODULE Spec2Model ----
(***************************************************************************)
(* scripts/fix-broken-console-cleanup.py: a cleanup pass that reads each   *)
(* file of a fixed list, applies seven regular-expression substitutions    *)
(* and a blank-line collapse, and writes the text back when it changed.    *)
(*                                                                         *)
(* Text is a sequence of characters, each a string.  The regular           *)
(* expressions are sequences of items, run by a backtracking matcher that  *)
(* tries the alternatives in the order Python's re module tries them       *)
(* (greedy: longest first, lazy: shortest first), under re.MULTILINE.      *)
(*                                                                         *)
(* A file's text is the text open(..., 'r', encoding='utf-8') gives: line  *)
(* ends are newlines.  A run is modelled without faults of the file system *)
(* other than a listed file that does not exist.                           *)
(***************************************************************************)
EXTENDS Integers, Sequences, FiniteSets, TLC

NL == "\n"

\* The backtick and the double quote, which a string of this language cannot hold.
BT == "BT"

DQ == "DQ"

\* The characters \s matches (of those a text file read in text mode holds).
WS == {" ", "\t", "\n", "\r", "\f"}

--------------------------------------------------------------------------
\* Regular-expression items.

Bol == [t |-> "bol", cs |-> {}, neg |-> FALSE, q |-> "one"]
Eol == [t |-> "eol", cs |-> {}, neg |-> FALSE, q |-> "one"]
Lit(c) == [t |-> "set", cs |-> {c}, neg |-> FALSE, q |-> "one"]
Cls(cs, q) == [t |-> "set", cs |-> cs, neg |-> FALSE, q |-> q]
NotCls(cs, q) == [t |-> "set", cs |-> cs, neg |-> TRUE, q |-> q]

\* '.' without re.DOTALL: any character but the newline.
Dot(q) == NotCls({NL}, q)

Takes(it, c) == (c \in it.cs) # it.neg

RECURSIVE RunLen(_, _, _)
RunLen(it, s, i) ==
    IF i > Len(s) \/ ~Takes(it, s[i]) THEN 0 ELSE 1 + RunLen(it, s, i + 1)

MinRep(q) == IF q \in {"one", "plus"} THEN 1 ELSE 0

MaxRep(q, n) == IF q \in {"one", "opt"} /\ n > 1 THEN 1 ELSE n

Greedy(q) == q \in {"one", "opt", "star", "plus"}

\* '^' under re.MULTILINE: at the start of the text and after every newline.
AtBol(s, i) == i = 1 \/ s[i - 1] = NL

\* '$' under re.MULTILINE: at the end of the text and before every newline.
AtEol(s, i) == i = Len(s) + 1 \/ s[i] = NL

\* MatchAt(pat, k, s, i): items k.. of pat matched against s from position i;
\* the position after the match the engine finds first, 0 when there is none.
RECURSIVE MatchAt(_, _, _, _), TryCount(_, _, _, _, _, _, _)
MatchAt(pat, k, s, i) ==
    IF k > Len(pat) THEN i
    ELSE LET it == pat[k] IN
         CASE it.t = "bol" -> IF AtBol(s, i) THEN MatchAt(pat, k + 1, s, i) ELSE 0
           [] it.t = "eol" -> IF AtEol(s, i) THEN MatchAt(pat, k + 1, s, i) ELSE 0
           [] OTHER ->
                LET n  == RunLen(it, s, i)
                    lo == MinRep(it.q)
                    hi == MaxRep(it.q, n)
                IN  IF hi < lo THEN 0
                    ELSE IF Greedy(it.q) THEN TryCount(pat, k, s, i, hi, lo, -1)
                    ELSE TryCount(pat, k, s, i, lo, hi, 1)

\* The counts j, j + step, .., last in turn; the first with which the rest of
\* the pattern matches decides.
TryCount(pat, k, s, i, j, last, step) ==
    LET e == MatchAt(pat, k + 1, s, i + j)
    IN  IF e # 0 THEN e
        ELSE IF j = last THEN 0
        ELSE TryCount(pat, k, s, i, j + step, last, step)

\* re.sub(pat, repl, s): the leftmost non-overlapping matches, scanned left to
\* right, each replaced by repl.
RECURSIVE SubFrom(_, _, _, _)
SubFrom(pat, repl, s, pos) ==
    IF pos > Len(s) + 1 THEN <<>>
    ELSE LET e    == MatchAt(pat, 1, s, pos)
             here == IF pos <= Len(s) THEN <<s[pos]>> ELSE <<>>
         IN  IF e = 0 THEN here \o SubFrom(pat, repl, s, pos + 1)
             ELSE IF e = pos THEN repl \o here \o SubFrom(pat, repl, s, pos + 1)
             ELSE repl \o SubFrom(pat, repl, s, e)

Sub(pat, repl, s) == SubFrom(pat, repl, s, 1)

\* re.search(pat, s) is not None
HasMatch(pat, s) == \E pos \in 1..(Len(s) + 1) : MatchAt(pat, 1, s, pos) # 0

--------------------------------------------------------------------------
\* The patterns of fix_broken_fragments.

\* ^\s*\}\.\.\..*?\)\);?\s*$
Pattern1 ==
    <<Bol, Cls(WS, "star"), Lit("}"), Lit("."), Lit("."), Lit("."), Dot("lazy"),
      Lit(")"), Lit(")"), Cls({";"}, "opt"), Cls(WS, "star"), Eol>>

\* ^\s*`[^`]*?\$\{[^}]+\}[^`]*?`\);\s*$
Pattern2 ==
    <<Bol, Cls(WS, "star"), Lit(BT), NotCls({BT}, "lazy"), Lit("$"), Lit("{"),
      NotCls({"}"}, "plus"), Lit("}"), NotCls({BT}, "lazy"),
      Lit(BT), Lit(")"), Lit(";"), Cls(WS, "star"), Eol>>

\* ^\s*`\);\s*$
Pattern3 ==
    <<Bol, Cls(WS, "star"), Lit(BT), Lit(")"), Lit(";"), Cls(WS, "star"), Eol>>

\* ^\s*\$\{[^}]+\}.*?`\);\s*$
Pattern4 ==
    <<Bol, Cls(WS, "star"), Lit("$"), Lit("{"), NotCls({"}"}, "plus"), Lit("}"),
      Dot("lazy"), Lit(BT), Lit(")"), Lit(";"), Cls(WS, "star"), Eol>>

\* ^\s*[\)\]}\s,]+`\);\s*$
Pattern5 ==
    <<Bol, Cls(WS, "star"), Cls({")", "]", "}", ","} \cup WS, "plus"),
      Lit(BT), Lit(")"), Lit(";"), Cls(WS, "star"), Eol>>

\* ^\s*[Q]\);\s*$  where [Q] is the class of backtick, single and double quote
Pattern6 ==
    <<Bol, Cls(WS, "star"), Cls({BT, "'", DQ}, "one"), Lit(")"), Lit(";"),
      Cls(WS, "star"), Eol>>

\* ^\s*[+]\s*[Q].*?[Q]\);\s*$  with the same class [Q]
Pattern7 ==
    <<Bol, Cls(WS, "star"), Cls({"+"}, "one"), Cls(WS, "star"),
      Cls({BT, "'", DQ}, "one"), Dot("lazy"), Cls({BT, "'", DQ}, "one"),
      Lit(")"), Lit(";"), Cls(WS, "star"), Eol>>

\* The seven fragment patterns, in the order they are applied.
FragmentPatterns ==
    <<Pattern1, Pattern2, Pattern3, Pattern4, Pattern5, Pattern6, Pattern7>>

\* \n\n\n+
CollapsePattern == <<Lit(NL), Lit(NL), Cls({NL}, "plus")>>

\* (a single newline)
CollapseReplMut == <<NL>>

\* '\n\n'
CollapseRepl == <<NL, NL>>

\* Patterns 1-7 applied in order, each to the output of the one before.
RECURSIVE ApplyRules(_, _)
ApplyRules(k, content) ==
    IF k = 0 THEN content
    ELSE Sub(FragmentPatterns[k], <<>>, ApplyRules(k - 1, content))

RemoveFragments(content) == ApplyRules(Len(FragmentPatterns), content)

fix_broken_fragments(content) ==
    Sub(CollapsePattern, CollapseRepl, RemoveFragments(content))

--------------------------------------------------------------------------
\* File contents the model runs the pass on: lines joined by newlines.

RECURSIVE Join(_)
Join(ls) ==
    IF Len(ls) = 0 THEN <<>>
    ELSE IF Len(ls) = 1 THEN ls[1]
    ELSE ls[1] \o <<NL>> \o Join(Tail(ls))

\* The line the spec's first example removes: }...(${x}));
EllipsisLine == <<"}", ".", ".", ".", "(", "$", "{", "x", "}", ")", ")", ";">>

\* The line the spec's second example removes: a backtick, then );
BacktickLine == <<BT, ")", ";">>

PlainLine == <<"a">>

BlankLine == <<>>

\* Lines that open, close and block a multi-line match, and a lone closer.
OpenerLine == <<BT, "a">>

CloserLine == <<"z", "$", "{", "x", "}", BT, ")", ";">>

CommaLine == <<",", BT, ")", ";">>

ParenLine == <<")">>

FragLines ==
    { PlainLine, BlankLine, EllipsisLine, BacktickLine,
      OpenerLine, CloserLine, CommaLine, ParenLine }

\* One line for each of the seven patterns, in order.
RuleLines ==
    << EllipsisLine,
       <<BT, "$", "{", "x", "}", BT, ")", ";">>,
       BacktickLine,
       <<"$", "{", "x", "}", BT, ")", ";">>,
       <<" ", "]", BT, ")", ";">>,
       <<"'", ")", ";">>,
       <<"+", " ", DQ, "a", DQ, ")", ";">> >>

MaxLines == 3

MaxBlank == 6

SeqsUpTo(S, n) == UNION { [1..k -> S] : k \in 1..n }

FragInputs == { Join(ls) : ls \in SeqsUpTo(FragLines, MaxLines) }

BlankInputs == { Join(ls) : ls \in SeqsUpTo({PlainLine, BlankLine}, MaxBlank) }

RuleInputs ==
    { Join(<<a, RuleLines[k], b>>) :
        a \in {PlainLine, BlankLine, <<" ">>}, b \in {PlainLine, BlankLine},
        k \in 1..Len(RuleLines) }

Inputs == FragInputs \cup BlankInputs \cup RuleInputs

CleanText == Join(<<PlainLine, BlankLine, PlainLine>>)

DirtyText == Join(<<PlainLine, BacktickLine, PlainLine>>)

--------------------------------------------------------------------------
\* The run: main().

ERROR_FILES ==
    << "app/api/admin/health/openrouter/route.ts",
       "app/api/admin/openrouter-prompt/route.ts",
       "app/api/admin/prompts/route.ts",
       "app/api/chat/history/route.ts",
       "app/api/chat/route.ts",
       "app/api/chat/sync/route.ts",
       "app/api/conversations/[id]/route.ts",
       "app/api/conversations/route.ts" >>

NFiles == Len(ERROR_FILES)

base_path == "/Users/eriksupit/Desktop/makalah-deploy/makalahApp"

\* The process's working directory, which is not the base directory.
cwd == "."

\* (the relative path, resolved under the working directory)
FullPathMut(file_path) == <<cwd, file_path>>

\* base_path / file_path
FullPath(file_path) == <<base_path, file_path>>

\* The k-th entry of the list, resolved under the base directory.
ListedPath(k) == <<base_path, ERROR_FILES[k]>>

ListedPaths == { ListedPath(k) : k \in 1..NFiles }

\* Files that are not on the list: one with the relative name of a listed
\* file under the working directory, one next to the listed files.
StrayFile == <<cwd, ERROR_FILES[5]>>

BackupFile == <<base_path, "app/api/chat/route.ts.bak">>

\* A path of the tree that holds no file and is not on the list.
AbsentFile == <<base_path, "app/api/chat/stream/route.ts">>

VARIABLES
    fs,           \* the file system: existing path -> text
    start,        \* fs when the current run began
    run,          \* which run of the script this is
    i,            \* main's position in ERROR_FILES
    fixed_count,  \* main's counter
    out,          \* what the run printed, one record per print
    io,           \* the run's file operations, in order
    pc            \* "loop", then "done" after the summary line

vars == <<fs, start, run, i, fixed_count, out, io, pc>>

MaxRuns == 2

Exists(f, p) == p \in DOMAIN f

\* (opened with 'a': the text is added to what the file holds)
WriteFileMut(f, p, text) == (p :> (IF Exists(f, p) THEN f[p] ELSE <<>>) \o text) @@ f

\* open(p, 'w').write(text): creates or truncates, then holds text
WriteFile(f, p, text) == (p :> text) @@ f

\* (always true)
ChangedMut(fixed_content, original_content) == TRUE

\* fixed_content != original_content
Changed(fixed_content, original_content) == fixed_content # original_content

RECURSIVE Count(_, _)
Count(s, c) ==
    IF Len(s) = 0 THEN 0 ELSE (IF s[1] = c THEN 1 ELSE 0) + Count(Tail(s), c)

\* original_content.count('\n') - fixed_content.count('\n')
lines_removed(original_content, fixed_content) ==
    Count(original_content, NL) - Count(fixed_content, NL)

\* (fixed_count = 1)
IncrementMut(n) == 1

\* fixed_count += 1
Increment(n) == n + 1

Others == (StrayFile :> DirtyText) @@ (BackupFile :> DirtyText)

\* Any subset of the listed files is missing; of the others every third one,
\* counted from d, holds a fragment line and the rest are clean.
InitRun ==
    \E missing \in SUBSET (1..NFiles), d \in 0..2 :
        fs = [p \in { ListedPath(k) : k \in (1..NFiles) \ missing }
                |-> LET k == CHOOSE n \in 1..NFiles : ListedPath(n) = p
                    IN  IF k % 3 = d THEN DirtyText ELSE CleanText]
             @@ Others

\* One listed file holds any of the input texts, next to a clean, a dirty and
\* a missing one.
InitFix ==
    \E c \in Inputs :
        fs = (ListedPath(1) :> CleanText) @@ (ListedPath(4) :> DirtyText)
             @@ (ListedPath(NFiles) :> c) @@ Others

Init ==
    /\ InitRun \/ InitFix
    /\ start = fs
    /\ run = 1
    /\ i = 1
    /\ fixed_count = 0
    /\ out = <<>>
    /\ io = <<>>
    /\ pc = "loop"

file_path == ERROR_FILES[i]

full_path == FullPath(file_path)

\* f.read()
original_content == fs[full_path]

InLoop == pc = "loop" /\ i <= NFiles

\* (break in place of continue)
NotFoundMut ==
    /\ InLoop
    /\ ~Exists(fs, full_path)
    /\ out' = Append(out, [kind |-> "warning", path |-> file_path, n |-> 0])
    /\ io' = Append(io, [op |-> "exists", path |-> full_path, text |-> <<>>])
    /\ i' = NFiles + 1
    /\ UNCHANGED <<fs, start, run, fixed_count, pc>>

\* if not full_path.exists(): print the warning; continue
NotFound ==
    /\ InLoop
    /\ ~Exists(fs, full_path)
    /\ out' = Append(out, [kind |-> "warning", path |-> file_path, n |-> 0])
    /\ io' = Append(io, [op |-> "exists", path |-> full_path, text |-> <<>>])
    /\ i' = i + 1
    /\ UNCHANGED <<fs, start, run, fixed_count, pc>>

\* read, fix, the text changed: write it back, report, count
Fixed ==
    /\ InLoop
    /\ Exists(fs, full_path)
    /\ LET fixed_content == fix_broken_fragments(original_content) IN
       /\ Changed(fixed_content, original_content)
       /\ fs' = WriteFile(fs, full_path, fixed_content)
       /\ io' = io \o << [op |-> "exists", path |-> full_path, text |-> <<>>],
                         [op |-> "read", path |-> full_path, text |-> original_content],
                         [op |-> "write", path |-> full_path, text |-> fixed_content] >>
       /\ out' = Append(out, [kind |-> "fixed", path |-> file_path,
                              n |-> lines_removed(original_content, fixed_content)])
    /\ fixed_count' = Increment(fixed_count)
    /\ i' = i + 1
    /\ UNCHANGED <<start, run, pc>>

\* read, fix, the text is the same: report only
NoChange ==
    /\ InLoop
    /\ Exists(fs, full_path)
    /\ ~Changed(fix_broken_fragments(original_content), original_content)
    /\ io' = io \o << [op |-> "exists", path |-> full_path, text |-> <<>>],
                      [op |-> "read", path |-> full_path, text |-> original_content] >>
    /\ out' = Append(out, [kind |-> "nochange", path |-> file_path, n |-> 0])
    /\ i' = i + 1
    /\ UNCHANGED <<fs, start, run, fixed_count, pc>>

\* after the loop: the summary line
Summary ==
    /\ pc = "loop"
    /\ i > NFiles
    /\ out' = Append(out, [kind |-> "summary", path |-> "", n |-> fixed_count])
    /\ pc' = "done"
    /\ UNCHANGED <<fs, start, run, i, fixed_count, io>>

\* The script is run again on the files the run before left.
Rerun ==
    /\ pc = "done"
    /\ run < MaxRuns
    /\ run' = run + 1
    /\ start' = fs
    /\ i' = 1
    /\ fixed_count' = 0
    /\ out' = <<>>
    /\ io' = <<>>
    /\ pc' = "loop"
    /\ UNCHANGED fs

Next == NotFound \/ Fixed \/ NoChange \/ Summary \/ Rerun

Spec == Init /\ [][Next]_vars

--------------------------------------------------------------------------
\* Vocabulary of the properties.

\* The path the last step of the loop handled, and what the step left.
LastPath == ListedPath(i - 1)

\* The last step handled a file that existed when the run began.
JustRead == i > 1 /\ Len(out) >= i - 1 /\ Exists(start, LastPath)

LastReport == out[i - 1]

Before == start[LastPath]

After == fs[LastPath]

\* No match of any of the seven fragment patterns anywhere in the text.
NoFragment(c) ==
    \A k \in 1..Len(FragmentPatterns) : ~HasMatch(FragmentPatterns[k], c)

NoTripleNewline(c) ==
    \A j \in 1..(Len(c) - 2) : ~(c[j] = NL /\ c[j + 1] = NL /\ c[j + 2] = NL)

\* The text split at its newlines.
RECURSIVE Split(_, _)
Split(c, cur) ==
    IF Len(c) = 0 THEN <<cur>>
    ELSE IF Head(c) = NL THEN <<cur>> \o Split(Tail(c), <<>>)
    ELSE Split(Tail(c), Append(cur, Head(c)))

Lines(c) == Split(c, <<>>)

IsBlank(l) == \A j \in 1..Len(l) : l[j] \in WS

\* The line, taken alone, matches one of the seven patterns.
LineIsFragment(l) == ~NoFragment(l)

IsKept(l) == ~IsBlank(l) /\ ~LineIsFragment(l)

IsNonBlank(l) == ~IsBlank(l)

\* The non-blank lines that match none of the patterns, in order.
KeptLines(c) == SelectSeq(Lines(c), IsKept)

NonBlankLines(c) == SelectSeq(Lines(c), IsNonBlank)

HasLine(c, l) == \E k \in 1..Len(Lines(c)) : Lines(c)[k] = l

\* The lines of a text: every newline ends one, and so does the end of the
\* text when characters follow the last newline.
TermLines(c) ==
    LET l == Lines(c)
    IN  IF Len(l[Len(l)]) = 0 THEN SubSeq(l, 1, Len(l) - 1) ELSE l

\* The lengths of the maximal runs of consecutive empty lines, in order.
RECURSIVE RunsOfBlank(_, _)
RunsOfBlank(ls, cur) ==
    LET done == IF cur > 0 THEN <<cur>> ELSE <<>>
    IN  IF Len(ls) = 0 THEN done
        ELSE IF Len(Head(ls)) = 0 THEN RunsOfBlank(Tail(ls), cur + 1)
        ELSE done \o RunsOfBlank(Tail(ls), 0)

BlankRuns(c) == RunsOfBlank(TermLines(c), 0)

RECURSIVE LeadingNewlines(_)
LeadingNewlines(c) ==
    IF Len(c) = 0 \/ Head(c) # NL THEN 0 ELSE 1 + LeadingNewlines(Tail(c))

\* The text as tokens: a character that is no newline, or a maximal run of
\* newlines with its length.
RECURSIVE Runs(_)
Runs(c) ==
    IF Len(c) = 0 THEN <<>>
    ELSE IF Head(c) = NL
         THEN LET n == LeadingNewlines(c)
              IN  <<[nl |-> n, ch |-> ""]>> \o Runs(SubSeq(c, n + 1, Len(c)))
         ELSE <<[nl |-> 0, ch |-> Head(c)]>> \o Runs(Tail(c))

CapRuns(r) ==
    [k \in DOMAIN r |-> IF r[k].nl > 2 THEN [nl |-> 2, ch |-> ""] ELSE r[k]]

\* The number of matches re.sub replaces.
RECURSIVE CountFrom(_, _, _)
CountFrom(pat, s, pos) ==
    IF pos > Len(s) + 1 THEN 0
    ELSE LET e == MatchAt(pat, 1, s, pos)
         IN  IF e = 0 THEN CountFrom(pat, s, pos + 1)
             ELSE IF e = pos THEN 1 + CountFrom(pat, s, pos + 1)
             ELSE 1 + CountFrom(pat, s, e)

\* The number of matches patterns 1..k delete from the text, in sequence.
RECURSIVE FragmentsRemoved(_, _)
FragmentsRemoved(k, c) ==
    IF k = 0 THEN 0
    ELSE FragmentsRemoved(k - 1, c)
         + CountFrom(FragmentPatterns[k], ApplyRules(k - 1, c), 1)

Writes(p) == { j \in DOMAIN io : io[j].op = "write" /\ io[j].path = p }

AllWrites == { j \in DOMAIN io : io[j].op = "write" }

--------------------------------------------------------------------------
\* The properties.

\* C1: idempotence.  A second run of the pass over the files the first run
\* left rewrites none of them and reports "no changes needed" for each one
\* that exists: fix(fix(c)) = fix(c).
C1_SecondRunChangesNothing ==
    run > 1 =>
        /\ fs = start
        /\ \A k \in DOMAIN out : out[k].kind # "fixed"

\* C2, as stated: a listed, existing file with no match of any of the seven
\* fragment patterns is reported "no changes needed" and keeps its content,
\* whatever else it holds.
C2_NoFragmentNoChange ==
    (JustRead /\ NoFragment(Before)) =>
        (LastReport.kind = "nochange" /\ Exists(fs, LastPath) /\ After = Before)

\* C2, amended: a listed, existing file with no match of any of the seven
\* fragment patterns and no three consecutive newlines is reported "no
\* changes needed" and keeps its content.
C2_NoFragmentNoRunNoChange ==
    (JustRead /\ NoFragment(Before) /\ NoTripleNewline(Before)) =>
        (LastReport.kind = "nochange" /\ Exists(fs, LastPath) /\ After = Before)

\* A clean file with one blank line in it was handled and left alone.
C2_Witness ==
    /\ JustRead
    /\ NoFragment(Before) /\ NoTripleNewline(Before)
    /\ \E j \in 1..(Len(Before) - 1) : Before[j] = NL /\ Before[j + 1] = NL
    /\ LastReport.kind = "nochange"

\* C3, as stated: in the output every run of three or more consecutive blank
\* lines of the input is exactly one blank line, and a run of exactly two
\* blank lines is still two (inputs without fragments, so that the runs of
\* the input are the runs the collapse sees).
C3_ThreeBlankLinesCollapse ==
    (JustRead /\ NoFragment(Before) /\ Exists(fs, LastPath)) =>
        BlankRuns(After) =
            [k \in DOMAIN BlankRuns(Before) |->
                IF BlankRuns(Before)[k] >= 3 THEN 1 ELSE BlankRuns(Before)[k]]

\* C3, amended: in the output every run of three or more consecutive
\* newlines of the text rules 1-7 leave is exactly two newlines, every other
\* run of newlines and every other character is as it was.
C3_ThreeNewlinesCollapse ==
    (JustRead /\ Exists(fs, LastPath)) =>
        Runs(After) = CapRuns(Runs(RemoveFragments(Before)))

\* A file with four consecutive blank lines (five newlines) was rewritten.
C3_Witness ==
    /\ JustRead
    /\ NoFragment(Before)
    /\ \E k \in DOMAIN Runs(Before) : Runs(Before)[k].nl = 5
    /\ LastReport.kind = "fixed"
    /\ NoTripleNewline(After)

\* C4: a listed path that was missing when the run began gets one warning,
\* is only tested for existence (not read, created or written) and is not
\* counted; the loop goes on to the next path, so that every listed file that
\* exists is read and reported and the run ends with the summary.
C4_MissingNotFatal ==
    /\ Len(out) = (i - 1) + (IF pc = "done" THEN 1 ELSE 0)
    /\ pc = "done" => (i = NFiles + 1 /\ out[i].kind = "summary")
    /\ \A k \in 1..NFiles :
        IF Exists(start, ListedPath(k))
        THEN k < i =>
                /\ out[k].kind \in {"fixed", "nochange"}
                /\ \E j \in DOMAIN io :
                     io[j].op = "read" /\ io[j].path = ListedPath(k)
        ELSE /\ ~Exists(fs, ListedPath(k))
             /\ \A j \in DOMAIN io :
                  io[j].path = ListedPath(k) => io[j].op = "exists"
             /\ k < i =>
                  out[k] = [kind |-> "warning", path |-> ERROR_FILES[k], n |-> 0]
    /\ fixed_count <= Cardinality({ k \in 1..(i - 1) : Exists(start, ListedPath(k)) })

\* The run ended; a file after a missing one was rewritten.
C4_Witness ==
    /\ pc = "done"
    /\ \E k \in 1..NFiles, j \in 1..NFiles :
        /\ k < j
        /\ ~Exists(start, ListedPath(k))
        /\ out[k].kind = "warning"
        /\ out[j].kind = "fixed"

\* C6: a file that is not one of the eight listed paths exists exactly when
\* it did before the run and holds what it held; every write goes to a
\* listed path.
C6_Frame ==
    /\ Cardinality(ListedPaths) = 8
    /\ \A p \in (DOMAIN fs \cup DOMAIN start \cup {AbsentFile}) \ ListedPaths :
        /\ Exists(fs, p) <=> Exists(start, p)
        /\ Exists(fs, p) => fs[p] = start[p]
    /\ \A j \in AllWrites : io[j].path \in ListedPaths

\* The run ended and wrote a listed file; the unlisted files are as before.
C6_Witness ==
    /\ pc = "done"
    /\ AllWrites # {}
    /\ fs[StrayFile] = DirtyText
    /\ fs[BackupFile] = DirtyText
    /\ ~Exists(fs, AbsentFile)

\* C7: a listed, existing file is written exactly when its transformed text
\* differs from the text read: if equal, no write and "no changes needed";
\* if different, one write of exactly the transformed text and "Fixed".
C7_WriteIffChanged ==
    JustRead =>
        LET new == fix_broken_fragments(Before)
        IN  /\ Exists(fs, LastPath)
            /\ new = Before =>
                /\ Writes(LastPath) = {}
                /\ After = Before
                /\ LastReport.kind = "nochange"
            /\ new # Before =>
                /\ Cardinality(Writes(LastPath)) = 1
                /\ \A j \in Writes(LastPath) : io[j].text = new
                /\ After = new
                /\ LastReport.kind = "fixed"
            /\ LastReport.path = ERROR_FILES[i - 1]

\* A file was rewritten after another one was left alone.
C7_Witness ==
    /\ JustRead
    /\ LastReport.kind = "fixed"
    /\ \E k \in 1..(i - 2) : out[k].kind = "nochange"

\* C8: one report per path, in list order, the summary after them all; the
\* counter is the number of files overwritten so far, and the summary
\* reports the number overwritten during the run.
C8_SummaryCount ==
    /\ i \in 1..(NFiles + 1)
    /\ pc = "done" => i = NFiles + 1
    /\ Len(out) = (i - 1) + (IF pc = "done" THEN 1 ELSE 0)
    /\ \A k \in 1..(i - 1) :
        /\ out[k].path = ERROR_FILES[k]
        /\ out[k].kind \in {"warning", "fixed", "nochange"}
    /\ fixed_count = Cardinality(AllWrites)
    /\ fixed_count = Cardinality({ io[j].path : j \in AllWrites })
    /\ pc = "done" =>
        out[NFiles + 1] = [kind |-> "summary", path |-> "", n |-> Cardinality(AllWrites)]

\* The run ended with a warning, a file left alone and two or more rewritten.
C8_Witness ==
    /\ pc = "done"
    /\ out[NFiles + 1].n >= 2
    /\ \E k \in 1..NFiles : out[k].kind = "warning"
    /\ \E k \in 1..NFiles : out[k].kind = "nochange"

\* C5: a listed file with a line that is exactly }...(${x})); or exactly a
\* backtick and ); is rewritten, no line of the result is that text, and the
\* non-blank lines that match no pattern are kept, unchanged and in order.
C5_ExampleLinesRemoved ==
    (JustRead /\ (HasLine(Before, EllipsisLine) \/ HasLine(Before, BacktickLine))) =>
        /\ LastReport.kind = "fixed"
        /\ Exists(fs, LastPath)
        /\ HasLine(Before, EllipsisLine) => ~HasLine(After, EllipsisLine)
        /\ HasLine(Before, BacktickLine) => ~HasLine(After, BacktickLine)
        /\ NonBlankLines(After) = KeptLines(Before)

\* C9: the number reported as "fragments removed" is the difference of the
\* newline counts, it is the number of fragments rules 1-7 removed, and so
\* it is at least 1 when a fragment was removed.
C9_FragmentCount ==
    (JustRead /\ LastReport.kind = "fixed" /\ Exists(fs, LastPath)) =>
        /\ LastReport.n = lines_removed(Before, After)
        /\ LastReport.n = FragmentsRemoved(Len(FragmentPatterns), Before)
        /\ FragmentsRemoved(Len(FragmentPatterns), Before) >= 1 => LastReport.n >= 1

\* C10: rules 1-7 are line-anchored: a non-blank line of the input that does
\* not by itself match any of the seven patterns is neither deleted nor
\* altered by rules 1-7, whatever its neighbours are.
C10_LineAnchored ==
    JustRead => NonBlankLines(RemoveFragments(Before)) = KeptLines(Before)

====
